---- MODULE Spec2Model ----
(***************************************************************************)
(* Eunoia journal frontend: the interceptor-based API client               *)
(* (services/api.ts), the standardized error handler (utils/errorHandler)  *)
(* and the session provider they talk to (lib/supabase.ts).  The line      *)
(* numbers given for api.ts are those of the API client's source, the      *)
(* module the components import as '../services/api'.                      *)
(*                                                                         *)
(* JavaScript is single-threaded: a handler runs without interruption from *)
(* one `await` to the next.  Every action below is one such run: it starts *)
(* when the awaited promise of a call settles and ends at the next await   *)
(* (or at the end of the handler).  The provider and the backend are the   *)
(* environment: what they answer is chosen with \E.                        *)
(***************************************************************************)
EXTENDS Integers, Sequences, FiniteSets, TLC

(***************************************************************************)
(* Bounds of the model.                                                    *)
(***************************************************************************)
MaxTicks == 1          \* how often the clock advances
MaxDispatch == 4       \* cap on the dispatches of one call (the code has none)
MaxRandom == 1         \* Math.random() suffixes of a request id are 0..MaxRandom
MaxLog == 2            \* cap on the length of the error log (the code has none)
MaxLimit == 2          \* getRecentErrors is called with limits 0..MaxLimit
MaxRuns == 4           \* cap on the runs of handleAsync (the code has none)
MaxClicks == 2         \* cap on the calls of retry()

(***************************************************************************)
(* Program constants.                                                      *)
(***************************************************************************)
RefreshWindow == 300   \* api.ts:37  "5 minutes = 300 seconds"
MsPerSecond == 1000    \* api.ts:33  Date.now() / 1000
TickMs == 60000        \* one minute of wall-clock time (AuthContext.tsx:134)

Calls == {"c1", "c2"}

\* Date.now() at the start of a behaviour, in milliseconds; not on a second
\* boundary, so that Math.floor(Date.now() / 1000) is not the identity.
StartMs == (1000 * MsPerSecond) + 500

NoToken == 0
NoStatus == 0

\* Session of @supabase/supabase-js as the client reads it: `session` may be
\* null, session.access_token and session.expires_at may be missing.
NoSession == [present |-> FALSE, access_token |-> NoToken, expires_at |-> 0]
Sess(tok, exp) == [present |-> TRUE, access_token |-> tok, expires_at |-> exp]

\* Math.floor(Date.now() / 1000)                                (api.ts:33)
NowSeconds(ms) == ms \div MsPerSecond

\* Remaining lifetimes (seconds, relative to the start) of the session the
\* application starts with (around the five minutes at the start and at
\* the first tick of the refresh timer), and the lifetimes the provider may
\* be configured to give the sessions a refresh hands out.
InitLifetimes == {-60, 0, 1, 299, 300, 360, 361, 3600}
RefreshLifetimes == {120, 3600}

InitSessions ==
  {NoSession, Sess(NoToken, 0), Sess(1, 0)}
    \cup {Sess(1, NowSeconds(StartMs) + l) : l \in InitLifetimes}

\* session?.access_token                                        (api.ts:31)
HasToken(s) == s.present /\ s.access_token # NoToken

\* const expiresAt = session.expires_at ? Math.floor(session.expires_at) : 0;
\* const timeUntilExpiry = expiresAt - now;                  (api.ts:33-35)
TimeUntilExpiry(s, ms) ==
  (IF s.expires_at # 0 THEN s.expires_at ELSE 0) - NowSeconds(ms)

(***************************************************************************)
(* utils/errorHandler.ts                                                   *)
(***************************************************************************)
\* enum ErrorCode                                       (errorHandler.ts:6-37)
ErrorCode ==
  [NETWORK_ERROR |-> "NET_001", API_TIMEOUT |-> "NET_002",
   API_UNAUTHORIZED |-> "NET_003", API_FORBIDDEN |-> "NET_004",
   API_NOT_FOUND |-> "NET_005", API_SERVER_ERROR |-> "NET_006",
   VALIDATION_ERROR |-> "VAL_001", REQUIRED_FIELD_MISSING |-> "VAL_002",
   INVALID_FORMAT |-> "VAL_003", AUTH_TOKEN_MISSING |-> "AUTH_001",
   AUTH_TOKEN_EXPIRED |-> "AUTH_002", AUTH_LOGIN_FAILED |-> "AUTH_003",
   DATA_LOAD_ERROR |-> "DATA_001", DATA_SAVE_ERROR |-> "DATA_002",
   DATA_NOT_FOUND |-> "DATA_003", ML_ANALYSIS_ERROR |-> "ML_001",
   ML_SERVICE_UNAVAILABLE |-> "ML_002", UNKNOWN_ERROR |-> "APP_001",
   CONFIGURATION_ERROR |-> "APP_002"]

ErrorCodes == {ErrorCode[k] : k \in DOMAIN ErrorCode}

\* enum ErrorSeverity                                  (errorHandler.ts:39-44)
ErrorSeverity ==
  [LOW |-> "low", MEDIUM |-> "medium", HIGH |-> "high", CRITICAL |-> "critical"]

\* The default of getUserFriendlyMessage               (errorHandler.ts:205)
DefaultUserMessage == "An unexpected error occurred. Please try again."

\* const userMessages: Record<ErrorCode, string>      (errorHandler.ts:181-203)
userMessages ==
  [code \in ErrorCodes |->
    CASE code = "NET_001" ->
           "Unable to connect to the server. Please check your internet connection."
      [] code = "NET_002" -> "The request is taking too long. Please try again."
      [] code = "NET_003" -> "Please log in to continue."
      [] code = "NET_004" -> "You do not have permission to perform this action."
      [] code = "NET_005" -> "The requested resource was not found."
      [] code = "NET_006" -> "Something went wrong on our end. Please try again later."
      [] code = "VAL_001" -> "Please check your input and try again."
      [] code = "VAL_002" -> "Please fill in all required fields."
      [] code = "VAL_003" -> "Please check the format of your input."
      [] code = "AUTH_001" -> "Please log in to continue."
      [] code = "AUTH_002" -> "Your session has expired. Please log in again."
      [] code = "AUTH_003" -> "Login failed. Please check your credentials."
      [] code = "DATA_001" -> "Failed to load data. Please try refreshing the page."
      [] code = "DATA_002" -> "Failed to save data. Please try again."
      [] code = "DATA_003" -> "No data found."
      [] code = "ML_001" ->
           "AI analysis is temporarily unavailable. Your entry has been saved."
      [] code = "ML_002" -> "AI features are temporarily unavailable."
      [] code = "APP_001" -> "An unexpected error occurred. Please try again."
      [] code = "APP_002" -> "Application configuration error. Please contact support."]

\* getUserFriendlyMessage(code, _message)             (errorHandler.ts:180-206)
getUserFriendlyMessage(code) ==
  IF code \in DOMAIN userMessages /\ userMessages[code] # ""
    THEN userMessages[code]
    ELSE DefaultUserMessage

\* generateRequestId(): `req_${Date.now()}_${Math.random()...}`
\*                                                    (errorHandler.ts:102-104)
generateRequestId(ms, rnd) == <<"req", ms, rnd>>

\* createErrorContext(userId, component, action)       (errorHandler.ts:83-97)
createErrorContext(component, action, ms, rnd) ==
  [requestId |-> generateRequestId(ms, rnd), component |-> component,
   action |-> action, timestamp |-> ms]

StandardErrorKeepsUserMessage(code, message, detail, severity, context, userMessage) ==
  [code |-> code, message |-> message, detail |-> detail,
   severity |-> IF severity = "" THEN ErrorSeverity.MEDIUM ELSE severity,
   context |-> context,
   userMessage |-> userMessage]

\* The record createError builds (errorHandler.ts:120-136): severity
\* defaults to medium, userMessage to the lookup by code.  "" stands for an
\* option that is not supplied.
StandardError(code, message, detail, severity, context, userMessage) ==
  [code |-> code, message |-> message, detail |-> detail,
   severity |-> IF severity = "" THEN ErrorSeverity.MEDIUM ELSE severity,
   context |-> context,
   userMessage |->
     IF userMessage # "" THEN userMessage ELSE getUserFriendlyMessage(code)]

\* An axios error as handleApiError looks at it: err.response (with status
\* and data.detail), err.request, err.message.
AxiosError(status, detail) ==
  [response |-> status # NoStatus, status |-> status, detail |-> detail,
   request |-> TRUE, message |-> "Request failed"]

StatusClassTimeoutAsDefault(status, detail) ==
  CASE status = 400 ->
         <<ErrorCode.VALIDATION_ERROR,
           IF detail # "" THEN detail ELSE "Bad request", ErrorSeverity.MEDIUM>>
    [] status = 401 -> <<ErrorCode.API_UNAUTHORIZED, "Unauthorized", ErrorSeverity.HIGH>>
    [] status = 403 -> <<ErrorCode.API_FORBIDDEN, "Forbidden", ErrorSeverity.HIGH>>
    [] status = 404 -> <<ErrorCode.API_NOT_FOUND, "Not found", ErrorSeverity.MEDIUM>>
    [] status \in {500, 502, 503, 504} ->
         <<ErrorCode.API_SERVER_ERROR, "Server error", ErrorSeverity.HIGH>>
    [] OTHER ->
         <<ErrorCode.API_SERVER_ERROR, <<"HTTP", status, "error">>,
           ErrorSeverity.MEDIUM>>

\* The switch of handleApiError: status -> <<code, message, severity>>
\*                                                    (errorHandler.ts:238-276)
StatusClass(status, detail) ==
  CASE status = 400 ->
         <<ErrorCode.VALIDATION_ERROR,
           IF detail # "" THEN detail ELSE "Bad request", ErrorSeverity.MEDIUM>>
    [] status = 401 -> <<ErrorCode.API_UNAUTHORIZED, "Unauthorized", ErrorSeverity.HIGH>>
    [] status = 403 -> <<ErrorCode.API_FORBIDDEN, "Forbidden", ErrorSeverity.HIGH>>
    [] status = 404 -> <<ErrorCode.API_NOT_FOUND, "Not found", ErrorSeverity.MEDIUM>>
    [] status = 408 -> <<ErrorCode.API_TIMEOUT, "Request timeout", ErrorSeverity.MEDIUM>>
    [] status \in {500, 502, 503, 504} ->
         <<ErrorCode.API_SERVER_ERROR, "Server error", ErrorSeverity.HIGH>>
    [] OTHER ->
         <<ErrorCode.API_SERVER_ERROR, <<"HTTP", status, "error">>,
           ErrorSeverity.MEDIUM>>

\* handleApiError(error, context): the record it returns
\*                                                    (errorHandler.ts:221-300)
handleApiError(err, component, action, ms, rnd) ==
  LET errorContext == createErrorContext(component, action, ms, rnd)
  IN IF err.response
       THEN LET cls == StatusClass(err.status, err.detail)
            IN StandardError(cls[1], cls[2],
                 IF err.detail # "" THEN err.detail ELSE err.message,
                 cls[3], errorContext, "")
       ELSE IF err.request
         THEN StandardError(ErrorCode.NETWORK_ERROR, "Network error",
                err.message, ErrorSeverity.HIGH, errorContext, "")
         ELSE StandardError(ErrorCode.UNKNOWN_ERROR, "Unknown error",
                err.message, "", errorContext, "")

logErrorDropped(log, error) == log
logErrorPrepended(log, error) == <<error>> \o log

\* logError(error): this.errorLog.push(error)          (errorHandler.ts:145-147)
logError(log, error) == Append(log, error)

\* Values a caller can hand to handleApiError(error: unknown): null,
\* undefined, a primitive, or an object with or without response (status,
\* data.detail), request and message.  A primitive has no such properties:
\* reading them gives undefined, as for an empty object.
RawValue(kind, status, detail, request, message) ==
  [kind |-> kind, response |-> status # NoStatus, status |-> status,
   detail |-> detail, request |-> request, message |-> message]

\* The statuses the switch names, and one it does not   (errorHandler.ts:242-276)
ApiStatuses == {400, 401, 403, 404, 408, 418, 500, 502, 503, 504}

RawErrors ==
  {RawValue("null", NoStatus, "", FALSE, ""),
   RawValue("undefined", NoStatus, "", FALSE, ""),
   RawValue("string", NoStatus, "", FALSE, ""),
   RawValue("number", NoStatus, "", FALSE, ""),
   RawValue("object", NoStatus, "", FALSE, ""),
   RawValue("object", NoStatus, "", FALSE, "boom"),
   RawValue("object", NoStatus, "", TRUE, ""),
   RawValue("object", NoStatus, "", TRUE, "Network Error")}
    \cup {RawValue("object", s, "", TRUE, "Request failed") : s \in ApiStatuses}
    \cup {RawValue("object", s, "Entry text is required", TRUE,
                    "Request failed") : s \in {400, 500}}

\* `err.response` (errorHandler.ts:233) reads a property of the value
\* handed in: of null and undefined that raises a TypeError.  The reads
\* before it (`context?.userId`, ...) and `err?.message` are guarded.
ReadThrows(v) == v.kind \in {"null", "undefined"}

\* The action of a context built without one: undefined.
NoAction == <<>>

\* The options of createError: a field that is not supplied is <<>>, a
\* supplied one <<value>>.  originalError is stored in the record as it is
\* and never read, whatever it is.
Options(detail, severity, context, originalError, userMessage) ==
  [detail |-> detail, severity |-> severity, context |-> context,
   originalError |-> originalError, userMessage |-> userMessage]

\* An optional string as the destructuring of errorHandler.ts:120-126 leaves
\* it: undefined when not supplied ("" in StandardError).
Supplied(opt) == IF Len(opt) > 0 THEN opt[1] ELSE ""

\* createError(code, message, options): the record it builds
\*                                                    (errorHandler.ts:109-140)
createError(code, message, options, ms, rnd) ==
  StandardError(code, message, Supplied(options.detail),
    Supplied(options.severity),
    IF Len(options.context) > 0
      THEN options.context[1]
      ELSE createErrorContext("", NoAction, ms, rnd),
    Supplied(options.userMessage))

Max(a, b) == IF a >= b THEN a ELSE b
Min(a, b) == IF a <= b THEN a ELSE b

\* Array.prototype.slice(start): a negative start counts from the end of the
\* array, any other start from its beginning; -0 is 0.
slice(arr, start) ==
  LET n == Len(arr)
      k == IF start < 0 THEN Max(n + start, 0) ELSE Min(start, n)
  IN SubSeq(arr, k + 1, n)

\* getRecentErrors(limit = 10)                         (errorHandler.ts:305)
DefaultLimit == 10

\* getRecentErrors(limit): this.errorLog.slice(-limit)  (errorHandler.ts:305-307)
getRecentErrors(log, limit) == slice(log, -limit)

\* clearErrorLog(): this.errorLog = []                 (errorHandler.ts:312-314)
clearErrorLog(log) == <<>>

(***************************************************************************)
(* services/api.ts: the state of the client and of what it talks to        *)
(***************************************************************************)
VARIABLES
  now,            \* Date.now(), milliseconds
  ticks,          \* how often the clock has advanced
  session,        \* the provider's current session (shared by all calls)
  nextTok,        \* the next access token the provider hands out
  expiresIn,      \* lifetime (seconds) of the sessions the provider hands out
  pc,             \* per call: the await it is suspended at
  config,         \* per call: headers.Authorization and _retry of its config
  error,          \* per call: the axios error its response handler holds
  passes,         \* per call: its runs through the request interceptor
  refreshCalls,   \* per call: its refreshSession() calls, in program order
  sent,           \* per call: the Authorization header of each dispatch
  recv,           \* per call: the status of each response (NoStatus: none)
  reactTok,       \* per call: the token its reactive refresh returned
  branch,         \* per call: the forced-logout branch it took
  effects,        \* per call: signOut / clear / redirect, in program order
  result,         \* per call: what its promise settled with
  errorLog,       \* ErrorHandler.errorLog
  localStorage,   \* keys present in window.localStorage
  sessionStorage, \* keys present in window.sessionStorage
  href,           \* window.location.href
  input,          \* what the application hands to the error handler
  call,           \* the last call of the error handler's public interface
  hook,           \* useErrorHandler: its React state and its options
  runs,           \* useErrorHandler: the runs of handleAsync, in order
  timers,         \* useErrorHandler: the auto-retry timers still pending
  clicks,         \* useErrorHandler: how often retry() was called
  authContext,    \* AuthProvider: its React state (session, user, loading)
  subscription,   \* AuthProvider: subscribed to onAuthStateChange
  authEvents,     \* auth state changes not yet delivered to the subscriber
  initialSession, \* AuthProvider: getInitialSession, where it is suspended
  refreshInterval \* AuthProvider: the callback of the refresh timer

\* The variables of the API client other than the clock and the error log.
clientVars ==
  <<session, nextTok, expiresIn, pc, config, error, passes, refreshCalls,
    sent, recv, reactTok, branch, effects, result, localStorage,
    sessionStorage, href>>

handlerVars == <<input, call>>

hookVars == <<hook, runs, timers, clicks>>

authVars ==
  <<authContext, subscription, authEvents, initialSession, refreshInterval>>

vars == <<now, ticks, errorLog, clientVars, handlerVars, hookVars, authVars>>

\* What the provider's refreshSession() can answer: a session with a token,
\* { error }, { session: null } without error, or a rejected promise
\* (api.ts:40-51, 80-116 handle each).  Without a session to refresh it
\* cannot hand out a new one.
RefreshOutcomes == {"ok", "error", "noToken", "throw"}
RefreshOutcomesOf(s) ==
  IF s.present THEN RefreshOutcomes ELSE RefreshOutcomes \ {"ok"}

\* What the provider's signOut() can answer: { error: null }, { error }
\* (supabase.ts:42-45), or a rejected promise (the application's own
\* handleSignOut wraps the call in try/catch; in api.ts the call at lines 85
\* and 102 sits inside the try block of line 76).
SignOutOutcomes == {"ok", "error", "throw"}

\* What a dispatch can end with: a 2xx response, an error status, or no
\* response at all (network failure, or the 10 s timeout of api.ts:13).
Statuses == {200, 401, 500, NoStatus}

\* Keys the application itself keeps in localStorage
\* (ThemeContext.tsx:34, PreferencesModal.tsx:55-57).
ThemeKey == "eunoia-theme"
PreferenceKeys == {"eunoia-notifications", "eunoia-analytics", "eunoia-autosave"}

\* What a browser in which the user has picked a theme and saved the
\* preferences holds in localStorage.
PersistedKeys == {ThemeKey} \cup PreferenceKeys

NoResult == [kind |-> "none", value |-> <<>>]

\* No call of the error handler made yet.
NoInput == [op |-> "none"]
NoCall ==
  [op |-> "none", threw |-> FALSE, ret |-> <<>>, limit |-> 0,
   before |-> <<>>, at |-> 0]

\* useErrorHandler(options) at its first render: error null, isLoading
\* false, retryCount 0, lastRetryFn null      (errorHandler.ts:410-415)
HookState(autoRetry, maxRetries) ==
  [error |-> <<>>, isLoading |-> FALSE, retryCount |-> 0,
   lastRetryFn |-> <<>>, autoRetry |-> autoRetry, maxRetries |-> maxRetries]

\* const { autoRetry = false, maxRetries = 3 } = options  (errorHandler.ts:410)
DefaultMaxRetries == 3

InitClient ==
  /\ now = StartMs
  /\ ticks = 0
  /\ session \in InitSessions
  /\ nextTok = 2
  /\ expiresIn \in RefreshLifetimes
  /\ pc = [c \in Calls |-> "idle"]
  /\ config = [c \in Calls |-> [Authorization |-> NoToken, _retry |-> FALSE]]
  /\ error = [c \in Calls |-> AxiosError(NoStatus, "")]
  /\ passes = [c \in Calls |-> <<>>]
  /\ refreshCalls = [c \in Calls |-> <<>>]
  /\ sent = [c \in Calls |-> <<>>]
  /\ recv = [c \in Calls |-> <<>>]
  /\ reactTok = [c \in Calls |-> NoToken]
  /\ branch = [c \in Calls |-> "none"]
  /\ effects = [c \in Calls |-> <<>>]
  /\ result = [c \in Calls |-> NoResult]
  /\ errorLog = <<>>
  /\ localStorage = PersistedKeys
  /\ sessionStorage = {}
  /\ href = "/app"

InitHook ==
  /\ hook = HookState(FALSE, DefaultMaxRetries)
  /\ runs = <<>>
  /\ timers = <<>>
  /\ clicks = 0

\* session?.user ?? null                        (AuthContext.tsx:102, 113)
NoUser == "null"
UserOf(s) == IF s.present THEN "user" ELSE NoUser

\* The value of the AuthContext: useState(null), useState(null),
\* useState(true), then setSession / setUser / setLoading(false)
\*                                            (AuthContext.tsx:91-93, 101-103)
AuthContext(s, loading) ==
  [session |-> s, user |-> UserOf(s), loading |-> loading]

\* What the provider reports to the subscribers of onAuthStateChange.
AuthEvent(event, s) == [event |-> event, session |-> s]

\* A step of the application that changed the provider's session is
\* reported to the AuthProvider, once it has subscribed.
\*                                               (AuthContext.tsx:109-116)
Notify ==
  /\ authEvents' =
       IF subscription /\ session' # session
         THEN Append(authEvents,
                AuthEvent(IF session'.present THEN "TOKEN_REFRESHED"
                                              ELSE "SIGNED_OUT", session'))
         ELSE authEvents
  /\ UNCHANGED <<authContext, subscription, initialSession, refreshInterval>>

\* The AuthProvider before its effect has run.
InitAuth ==
  /\ authContext = AuthContext(NoSession, TRUE)
  /\ subscription = FALSE
  /\ authEvents = <<>>
  /\ initialSession = [pc |-> "idle", session |-> NoSession]
  /\ refreshInterval = [pc |-> "idle", checks |-> <<>>]

Init ==
  /\ InitClient
  /\ input = NoInput
  /\ call = NoCall
  /\ InitHook
  /\ InitAuth

(***************************************************************************)
(* The request interceptor                                  (api.ts:21-65) *)
(***************************************************************************)
NeedsProactiveRefreshInclusive(s, ms) ==
  TimeUntilExpiry(s, ms) <= RefreshWindow /\ TimeUntilExpiry(s, ms) > 0

\* if (timeUntilExpiry < 300 && timeUntilExpiry > 0)            (api.ts:37)
NeedsProactiveRefresh(s, ms) ==
  TimeUntilExpiry(s, ms) < RefreshWindow /\ TimeUntilExpiry(s, ms) > 0

\* The header the interceptor leaves when it does not refresh: the session's
\* token, or the header untouched when there is none      (api.ts:31,53,57)
AttachCurrent(h, s) == IF HasToken(s) THEN s.access_token ELSE h

AttachProactiveDropsOld(outcome, tok, s) ==
  IF outcome = "ok" /\ tok # NoToken THEN tok ELSE NoToken

\* The header after the proactive refresh settled          (api.ts:39-51)
\* outcome "ok" carries the refreshed token tok.
AttachProactive(outcome, tok, s) ==
  IF outcome = "ok" /\ tok # NoToken THEN tok ELSE s.access_token

\* One run of the interceptor, as recorded in passes.
\* session: what getSession() returned; at: Date.now() when it did;
\* refresh: "none", "pending" or the outcome of the proactive refresh;
\* refreshed: the token that refresh returned; attached: the header left.
Pass(s, ms, refresh, attached) ==
  [session |-> s, at |-> ms, refresh |-> refresh, refreshed |-> NoToken,
   attached |-> attached]

SetLast(seq, x) == [seq EXCEPT ![Len(seq)] = x]
Last(seq) == seq[Len(seq)]

\* api.get(...) / api.post(...): the interceptor starts and awaits
\* supabase.auth.getSession()                               (api.ts:21-25)
Request(c) ==
  /\ pc[c] = "idle"
  /\ pc' = [pc EXCEPT ![c] = "getSession"]
  /\ UNCHANGED <<now, ticks, session, nextTok, expiresIn, config, error, passes,
                 refreshCalls, sent, recv, reactTok, branch, effects, result,
                 errorLog, localStorage, sessionStorage, href>>
  /\ UNCHANGED <<handlerVars, hookVars>>
  /\ Notify

SessionReadDispatchesAtOnce(c) ==
  /\ pc[c] = "getSession"
  /\ LET needs == HasToken(session) /\ NeedsProactiveRefresh(session, now)
         h == AttachCurrent(config[c].Authorization, session)
     IN /\ pc' = [pc EXCEPT ![c] = "inFlight"]
        /\ config' = [config EXCEPT ![c].Authorization = h]
        /\ passes' = [passes EXCEPT ![c] =
             Append(@, Pass(session, now, IF needs THEN "pending" ELSE "none", h))]
        /\ sent' = [sent EXCEPT ![c] = Append(@, h)]
        /\ refreshCalls' = [refreshCalls EXCEPT ![c] =
             IF needs THEN Append(@, "proactive") ELSE @]
  /\ UNCHANGED <<now, ticks, session, nextTok, expiresIn, error, recv,
                 reactTok, branch, effects, result, errorLog, localStorage,
                 sessionStorage, href>>
  /\ UNCHANGED <<handlerVars, hookVars>>
  /\ Notify

\* getSession() settled: either the proactive refresh is requested
\* (api.ts:37-40) or the header is attached and the request dispatched
\* (api.ts:52-64).
SessionRead(c) ==
  /\ pc[c] = "getSession"
  /\ IF HasToken(session) /\ NeedsProactiveRefresh(session, now)
       THEN /\ pc' = [pc EXCEPT ![c] = "proactiveRefresh"]
            /\ passes' = [passes EXCEPT
                 ![c] = Append(@, Pass(session, now, "pending", NoToken))]
            /\ refreshCalls' = [refreshCalls EXCEPT ![c] = Append(@, "proactive")]
            /\ UNCHANGED <<config, sent>>
       ELSE LET h == AttachCurrent(config[c].Authorization, session)
            IN /\ pc' = [pc EXCEPT ![c] = "inFlight"]
               /\ config' = [config EXCEPT ![c].Authorization = h]
               /\ passes' = [passes EXCEPT
                    ![c] = Append(@, Pass(session, now, "none", h))]
               /\ sent' = [sent EXCEPT ![c] = Append(@, h)]
               /\ UNCHANGED refreshCalls
  /\ UNCHANGED <<now, ticks, session, nextTok, expiresIn, error, recv,
                 reactTok, branch, effects, result, errorLog, localStorage,
                 sessionStorage, href>>
  /\ UNCHANGED <<handlerVars, hookVars>>
  /\ Notify

\* The provider's side of refreshSession(): on "ok" the shared session is
\* replaced by a new one with a fresh token.
ProviderRefresh(outcome) ==
  IF outcome = "ok"
    THEN /\ session' = Sess(nextTok, NowSeconds(now) + expiresIn)
         /\ nextTok' = nextTok + 1
    ELSE UNCHANGED <<session, nextTok>>

\* The proactive refreshSession() settled                   (api.ts:40-64)
ProactiveSettled(c) ==
  /\ pc[c] = "proactiveRefresh"
  /\ \E outcome \in RefreshOutcomesOf(session) :
       LET read == Last(passes[c]).session
           h == AttachProactive(outcome, nextTok, read)
       IN /\ ProviderRefresh(outcome)
          /\ config' = [config EXCEPT ![c].Authorization = h]
          /\ passes' = [passes EXCEPT
               ![c] = SetLast(@, [Last(@) EXCEPT
                        !.refresh = outcome,
                        !.refreshed = IF outcome = "ok" THEN nextTok ELSE NoToken,
                        !.attached = h])]
          /\ sent' = [sent EXCEPT ![c] = Append(@, h)]
  /\ pc' = [pc EXCEPT ![c] = "inFlight"]
  /\ UNCHANGED <<now, ticks, expiresIn, error, refreshCalls, recv, reactTok,
                 branch, effects, result, errorLog, localStorage,
                 sessionStorage, href>>
  /\ UNCHANGED <<handlerVars, hookVars>>
  /\ Notify

(***************************************************************************)
(* The response interceptor                                (api.ts:67-131) *)
(***************************************************************************)
ShouldRefreshIgnoringMark(err, retried) == err.response /\ err.status = 401
ShouldRefreshOnAnyStatus(err, retried) == err.response /\ ~retried
ShouldRefreshOnNoResponse(err, retried) ==
  ~retried /\ (~err.response \/ err.status = 401)
ShouldRefreshSharedMark(err, retried) ==
  err.response /\ err.status = 401 /\ \A d \in Calls : ~config[d]._retry

\* if (error.response?.status === 401 && !originalRequest._retry) (api.ts:73)
ShouldRefresh(err, retried) == err.response /\ err.status = 401 /\ ~retried

MarkRetryForgotten(cfg) == cfg
MarkRetryCleared(cfg) == [cfg EXCEPT !._retry = FALSE]

\* originalRequest._retry = true                                 (api.ts:74)
MarkRetry(cfg) == [cfg EXCEPT !._retry = TRUE]

SetRefreshedTokenForgotten(cfg, tok) == cfg

\* originalRequest.headers.Authorization = `Bearer ${session.access_token}`
\*                                                               (api.ts:94)
SetRefreshedToken(cfg, tok) == [cfg EXCEPT !.Authorization = tok]

\* action: error.config?.method?.toUpperCase() + ' ' + error.config?.url
\*                                                             (api.ts:122)
ActionOf(c) == <<"GET", "/entries/?page=1&per_page=10", c>>

\* The body of a 2xx answer to the n-th dispatch of call c, and what
\* journalApi.getEntries hands to its caller: data?.entries (api.ts:150-153)
Payload(c, n) == [entries |-> <<c, n>>, page |-> 1]
getEntriesDropped(data) == <<>>
getEntries(data) == IF "entries" \in DOMAIN data THEN data.entries ELSE <<>>

\* createApiError(error, {component: 'api', action}) followed by
\* errorHandler.logError(standardError): createError has already pushed the
\* record (errorHandler.ts:138), the interceptor pushes it again
\* (api.ts:120-126).
ClassifyAndLog(log, std) == logError(logError(log, std), std)

\* A dispatch ended: with a 2xx response the promise resolves (api.ts:68);
\* otherwise the error handler runs up to its first await or to its throw
\* (api.ts:69-80, 119-129).
Response(c) ==
  /\ pc[c] = "inFlight"
  /\ \E status \in Statuses, rnd \in 0..MaxRandom :
       LET err == AxiosError(status, "")
       IN /\ recv' = [recv EXCEPT ![c] = Append(@, status)]
          /\ IF status = 200
               THEN /\ pc' = [pc EXCEPT ![c] = "resolved"]
                    /\ result' = [result EXCEPT ![c] =
                         [kind |-> "payload",
                          value |-> getEntries(Payload(c, Len(sent[c])))]]
                    /\ UNCHANGED <<config, error, errorLog, refreshCalls>>
               ELSE IF ShouldRefresh(err, config[c]._retry)
                 THEN /\ pc' = [pc EXCEPT ![c] = "reactiveRefresh"]
                      /\ config' = [config EXCEPT ![c] = MarkRetry(@)]
                      /\ error' = [error EXCEPT ![c] = err]
                      /\ refreshCalls' =
                           [refreshCalls EXCEPT ![c] = Append(@, "reactive")]
                      /\ UNCHANGED <<result, errorLog>>
                 ELSE LET std == handleApiError(err, "api", ActionOf(c), now, rnd)
                      IN /\ pc' = [pc EXCEPT ![c] = "rejected"]
                         /\ errorLog' = ClassifyAndLog(errorLog, std)
                         /\ result' = [result EXCEPT ![c] =
                              [kind |-> "StandardError", value |-> std]]
                         /\ error' = [error EXCEPT ![c] = err]
                         /\ UNCHANGED <<config, refreshCalls>>
  /\ UNCHANGED <<now, ticks, session, nextTok, expiresIn, passes, sent,
                 reactTok, branch, effects, localStorage, sessionStorage, href>>
  /\ UNCHANGED <<handlerVars, hookVars>>
  /\ Notify

\* await supabase.auth.signOut() is called            (api.ts:85, 102, 111)
CallSignOut(eff) == Append(eff, "signOut")

\* localStorage.clear(); sessionStorage.clear(); window.location.href = '/'
\*                                         (api.ts:86-88, 103-105, 112-114)
ClearAndRedirect(eff) ==
  eff \o <<"localStorage.clear", "sessionStorage.clear", "redirect">>

\* The reactive refreshSession() settled                    (api.ts:80-116)
\*   { error }           -> forced logout, first branch      (api.ts:82-90)
\*   session with token  -> header updated, api(originalRequest): the
\*                          request interceptor runs again    (api.ts:92-98)
\*   no token            -> forced logout, second branch    (api.ts:99-107)
\*   rejected            -> forced logout in the catch      (api.ts:108-116)
ReactiveSettled(c) ==
  /\ pc[c] = "reactiveRefresh"
  /\ Len(sent[c]) < MaxDispatch
  /\ \E outcome \in RefreshOutcomesOf(session) :
       /\ ProviderRefresh(outcome)
       /\ IF outcome = "ok"
            THEN /\ config' = [config EXCEPT ![c] = SetRefreshedToken(@, nextTok)]
                 /\ reactTok' = [reactTok EXCEPT ![c] = nextTok]
                 /\ pc' = [pc EXCEPT ![c] = "getSession"]
                 /\ UNCHANGED <<branch, effects>>
            ELSE /\ branch' = [branch EXCEPT ![c] =
                      CASE outcome = "error" -> "refreshError"
                        [] outcome = "noToken" -> "noToken"
                        [] OTHER -> "thrown"]
                 /\ effects' = [effects EXCEPT ![c] = CallSignOut(@)]
                 /\ pc' = [pc EXCEPT ![c] =
                      IF outcome = "throw" THEN "signOutCatch" ELSE "signOutTry"]
                 /\ UNCHANGED <<config, reactTok>>
  /\ UNCHANGED <<now, ticks, expiresIn, error, passes, refreshCalls, sent,
                 recv, result, errorLog, localStorage, sessionStorage, href>>
  /\ UNCHANGED <<handlerVars, hookVars>>
  /\ Notify

\* signOut() settled.  When it resolves (with or without an error in its
\* result, which the client ignores) the storages are cleared, the page is
\* redirected and the promise is rejected with the axios error
\* (api.ts:85-89, 102-106, 111-115).  When it rejects inside the try block
\* the catch block runs and calls signOut() again (api.ts:108-111); when it
\* rejects inside the catch block the handler ends with that rejection.
\* The persisted session lives in localStorage (supabase.ts:14), so
\* localStorage.clear() removes it.  What the browser does with the page
\* after the assignment to location.href is outside the client: the calls
\* still in flight are followed to their end.
SignOutSettled(c) ==
  /\ pc[c] \in {"signOutTry", "signOutCatch"}
  /\ \E outcome \in SignOutOutcomes :
       IF outcome # "throw"
         THEN /\ session' = NoSession
              /\ localStorage' = {}
              /\ sessionStorage' = {}
              /\ href' = "/"
              /\ effects' = [effects EXCEPT ![c] = ClearAndRedirect(@)]
              /\ result' = [result EXCEPT ![c] =
                   [kind |-> "AxiosError", value |-> error[c]]]
              /\ pc' = [pc EXCEPT ![c] = "rejected"]
         ELSE IF pc[c] = "signOutTry"
           THEN /\ effects' = [effects EXCEPT ![c] = CallSignOut(@)]
                /\ pc' = [pc EXCEPT ![c] = "signOutCatch"]
                /\ UNCHANGED <<session, localStorage, sessionStorage, href,
                               result>>
           ELSE /\ result' = [result EXCEPT ![c] =
                     [kind |-> "ProviderError", value |-> "signOut"]]
                /\ pc' = [pc EXCEPT ![c] = "rejected"]
                /\ UNCHANGED <<session, localStorage, sessionStorage, href,
                               effects>>
  /\ UNCHANGED <<now, ticks, nextTok, expiresIn, config, error, passes,
                 refreshCalls, sent, recv, reactTok, branch, errorLog>>
  /\ UNCHANGED <<handlerVars, hookVars>>
  /\ Notify

\* Wall-clock time passes.
Tick ==
  /\ ticks < MaxTicks
  /\ ticks' = ticks + 1
  /\ now' = now + TickMs
  /\ UNCHANGED <<session, nextTok, expiresIn, pc, config, error, passes,
                 refreshCalls, sent, recv, reactTok, branch, effects, result,
                 errorLog, localStorage, sessionStorage, href>>
  /\ UNCHANGED <<handlerVars, hookVars>>
  /\ Notify

\* One call, with time passing.
Main == "c1"

Next ==
  \/ Request(Main)
  \/ SessionRead(Main)
  \/ ProactiveSettled(Main)
  \/ Response(Main)
  \/ ReactiveSettled(Main)
  \/ SignOutSettled(Main)
  \/ Tick

Spec == Init /\ [][Next]_vars

\* The same call when the provider answers every getSession, refreshSession
\* and signOut, and every dispatch ends with a response or with the timeout
\* of api.ts:13: each continuation of the interceptors that can run
\* eventually runs.
SpecLive ==
  /\ Spec
  /\ WF_vars(SessionRead(Main))
  /\ WF_vars(ProactiveSettled(Main))
  /\ WF_vars(Response(Main))
  /\ WF_vars(ReactiveSettled(Main))
  /\ WF_vars(SignOutSettled(Main))

\* Two calls in flight at once, sharing the provider's session: no session,
\* a session about to expire, or a session with a long life ahead.
PairLifetimes == {299, 3600}

InitPair ==
  /\ Init
  /\ session \in {NoSession}
       \cup {Sess(1, NowSeconds(StartMs) + l) : l \in PairLifetimes}

NextPair ==
  \/ \E c \in Calls : Request(c)
  \/ \E c \in Calls : SessionRead(c)
  \/ \E c \in Calls : ProactiveSettled(c)
  \/ \E c \in Calls : Response(c)
  \/ \E c \in Calls : ReactiveSettled(c)
  \/ \E c \in Calls : SignOutSettled(c)

SpecPair == InitPair /\ [][NextPair]_vars

(***************************************************************************)
(* The error handler on its own: the application calls the public          *)
(* interface of the ErrorHandler singleton          (errorHandler.ts:65-315) *)
(***************************************************************************)
\* The codes handed to createError: those of the enum and one that is not
\* (the type is erased at run time).
Codes == ErrorCodes \cup {"EXT_000"}

\* A context the caller built earlier with createErrorContext, as
\* createValidationError does                      (errorHandler.ts:324-334)
SuppliedContext == createErrorContext("JournalEntry", <<"save">>, StartMs - 1, 0)

\* Options that differ in userMessage only: not supplied, empty, supplied.
MessageOptions ==
  {Options(<<>>, <<>>, <<>>, <<>>, <<>>),
   Options(<<>>, <<>>, <<>>, <<>>, <<"">>),
   Options(<<>>, <<>>, <<>>, <<>>, <<"Custom text">>)}

\* Options with detail, severity and context supplied, and with an
\* originalError that is an Error, null, or a number.
OtherOptions ==
  {Options(<<"d">>, <<ErrorSeverity.CRITICAL>>, <<SuppliedContext>>,
           <<"Error">>, <<>>),
   Options(<<>>, <<>>, <<>>, <<"null">>, <<>>),
   Options(<<>>, <<>>, <<>>, <<"number">>, <<>>)}

Inputs ==
  {[op |-> "handleApiError", raw |-> r] : r \in RawErrors}
    \cup {[op |-> "createError", code |-> c, message |-> "Something failed",
            options |-> o] : c \in Codes, o \in MessageOptions}
    \cup {[op |-> "createError", code |-> c, message |-> "Something failed",
            options |-> o] :
              c \in {ErrorCode.DATA_SAVE_ERROR, "EXT_000"}, o \in OtherOptions}

\* getRecentErrors() and getRecentErrors(limit)
Limits == (0..MaxLimit) \cup {DefaultLimit}

InitHandler ==
  /\ InitClient
  /\ session = NoSession
  /\ expiresIn = 3600
  /\ input \in Inputs
  /\ call = NoCall
  /\ InitHook
  /\ InitAuth

\* The record of a call: what it was, whether it threw, what it returned,
\* the log it found and the time it was made at.
Called(op, threw, ret, limit) ==
  [op |-> op, threw |-> threw, ret |-> ret, limit |-> limit,
   before |-> errorLog, at |-> now]

\* errorHandler.handleApiError(input)               (errorHandler.ts:221-300)
HandleApiErrorCall ==
  /\ input.op = "handleApiError"
  /\ Len(errorLog) < MaxLog
  /\ \E rnd \in 0..MaxRandom :
       IF ReadThrows(input.raw)
         THEN /\ call' = Called("handleApiError", TRUE, <<>>, 0)
              /\ UNCHANGED errorLog
         ELSE LET std == handleApiError(input.raw, "", NoAction, now, rnd)
              IN /\ errorLog' = logError(errorLog, std)
                 /\ call' = Called("handleApiError", FALSE, <<std>>, 0)
  /\ UNCHANGED <<now, ticks, clientVars, input, hookVars, authVars>>

\* errorHandler.createError(code, message, options)  (errorHandler.ts:109-140)
CreateErrorCall ==
  /\ input.op = "createError"
  /\ Len(errorLog) < MaxLog
  /\ \E rnd \in 0..MaxRandom :
       LET std == createError(input.code, input.message, input.options,
                              now, rnd)
       IN /\ errorLog' = logError(errorLog, std)
          /\ call' = Called("createError", FALSE, <<std>>, 0)
  /\ UNCHANGED <<now, ticks, clientVars, input, hookVars, authVars>>

\* errorHandler.logError(error) with the record the last call returned, as
\* the API client does                  (errorHandler.ts:145-175, api.ts:126)
LogErrorCall ==
  /\ call.op \in {"handleApiError", "createError"}
  /\ Len(call.ret) = 1
  /\ Len(errorLog) < MaxLog
  /\ errorLog' = logError(errorLog, call.ret[1])
  /\ call' = Called("logError", FALSE, <<>>, 0)
  /\ UNCHANGED <<now, ticks, clientVars, input, hookVars, authVars>>

\* errorHandler.getRecentErrors(limit)               (errorHandler.ts:305-307)
GetRecentErrorsCall ==
  /\ \E limit \in Limits :
       call' = Called("getRecentErrors", FALSE,
                      getRecentErrors(errorLog, limit), limit)
  /\ UNCHANGED <<now, ticks, errorLog, clientVars, input, hookVars, authVars>>

\* errorHandler.clearErrorLog()                      (errorHandler.ts:312-314)
ClearErrorLogCall ==
  /\ errorLog' = clearErrorLog(errorLog)
  /\ call' = Called("clearErrorLog", FALSE, <<>>, 0)
  /\ UNCHANGED <<now, ticks, clientVars, input, hookVars, authVars>>

NextHandler ==
  \/ HandleApiErrorCall
  \/ CreateErrorCall
  \/ LogErrorCall
  \/ GetRecentErrorsCall
  \/ ClearErrorLogCall
  \/ Tick

SpecHandler == InitHandler /\ [][NextHandler]_vars

(***************************************************************************)
(* The error-handling hook, useErrorHandler, as a component such as the    *)
(* Dashboard uses it (errorHandler.ts:409-510; Dashboard.tsx is the        *)
(* component with the 'Try Again' button bound to retry).                  *)
(***************************************************************************)
\* useDataErrorHandler: maxRetries: 2                   (errorHandler.ts:525)
DataMaxRetries == 2

\* 1000 * Math.pow(2, retryCount)                       (errorHandler.ts:469)
BackoffBaseMs == 1000

\* What asyncFn can reject with when it calls the API client: the
\* StandardError the response interceptor throws, a plain object with a
\* code (api.ts:128), or the axios error it rejects with after a forced
\* logout, an Error with a code (api.ts:89).
ThrownStandardError ==
  handleApiError(AxiosError(500, ""), "api", ActionOf(Main), StartMs, 0)
    @@ [kind |-> "object", response |-> FALSE, status |-> NoStatus,
        request |-> FALSE, isError |-> FALSE, hasCode |-> TRUE]
ThrownAxiosError ==
  [kind |-> "object", response |-> TRUE, status |-> 401, detail |-> "",
   request |-> TRUE, message |-> "Request failed",
   isError |-> TRUE, hasCode |-> TRUE]
Rejections == {ThrownStandardError, ThrownAxiosError}

\* if (error instanceof Error && 'code' in error)       (errorHandler.ts:434)
AlreadyStandard(err) == err.isError /\ err.hasCode

\* The context the Dashboard hands to handleAsync        (Dashboard.tsx:33-36)
HookComponent == "Dashboard"
HookAction == <<"load_dashboard_data">>

\* if (autoRetry && retryCount < maxRetries), with the retryCount the
\* closure of handleAsync captured                       (errorHandler.ts:462)
ShouldAutoRetry(h, captured) == h.autoRetry /\ captured < h.maxRetries

\* A run of handleAsync: the retryCount its closure captured, how far it
\* is, who started it, which attempt of its operation it is (1: started by
\* the component, k + 1: the k-th automatic retry), and what asyncFn rejected
\* with (<<>>: nothing yet).
Run(captured, origin, attempt) ==
  [captured |-> captured, st |-> "pending", origin |-> origin,
   attempt |-> attempt, thrown |-> <<>>]

\* handleAsync up to `await asyncFn()`: setIsLoading(true), clearError(),
\* asyncFn invoked                                   (errorHandler.ts:452-456)
StartRun(captured, origin, attempt) ==
  /\ hook' = [hook EXCEPT !.isLoading = TRUE, !.error = <<>>, !.retryCount = 0]
  /\ runs' = Append(runs, Run(captured, origin, attempt))

InitHookSpec ==
  /\ InitClient
  /\ session = NoSession
  /\ expiresIn = 3600
  /\ input = NoInput
  /\ call = NoCall
  /\ hook \in {HookState(FALSE, DefaultMaxRetries), HookState(TRUE, DataMaxRetries)}
  /\ runs = <<>>
  /\ timers = <<>>
  /\ clicks = 0
  /\ InitAuth

\* The component calls handleAsync(asyncFn, context) of its latest render
\*                                  (Dashboard.tsx:24-37, errorHandler.ts:450)
ComponentCalls ==
  /\ Len(runs) < MaxRuns
  /\ StartRun(hook.retryCount, "component", 1)
  /\ UNCHANGED <<now, ticks, errorLog, clientVars, authVars, handlerVars, timers, clicks>>

\* asyncFn() of run i settled: the rest of handleAsync
\*                                                   (errorHandler.ts:456-476)
FnSettled(i) ==
  /\ runs[i].st = "pending"
  /\ \/ /\ hook' = [hook EXCEPT !.retryCount = 0, !.isLoading = FALSE]
        /\ runs' = [runs EXCEPT ![i].st = "resolved"]
        /\ UNCHANGED <<errorLog, timers>>
     \/ \E err \in Rejections, rnd \in 0..MaxRandom :
          LET std == IF AlreadyStandard(err)
                       THEN err
                       ELSE handleApiError(err, HookComponent, HookAction,
                                           now, rnd)
              again == ShouldAutoRetry(hook, runs[i].captured)
          IN /\ errorLog' = IF AlreadyStandard(err)
                               THEN errorLog ELSE logError(errorLog, std)
             /\ hook' = [hook EXCEPT
                  !.error = <<std>>,
                  !.retryCount = IF again THEN @ + 1 ELSE @,
                  !.isLoading = FALSE]
             /\ timers' = IF again
                  THEN Append(timers,
                         [delay |-> BackoffBaseMs * (2 ^ runs[i].captured),
                          captured |-> runs[i].captured,
                          attempt |-> runs[i].attempt])
                  ELSE timers
             /\ runs' = [runs EXCEPT ![i].st = "failed", ![i].thrown = <<err>>]
  /\ UNCHANGED <<now, ticks, clientVars, authVars, handlerVars, clicks>>

\* An auto-retry timer fires: handleAsync(asyncFn, context) of the same
\* closure runs again                                (errorHandler.ts:465-470)
TimerFires(t) ==
  /\ Len(runs) < MaxRuns
  /\ timers' = SubSeq(timers, 1, t - 1) \o SubSeq(timers, t + 1, Len(timers))
  /\ StartRun(timers[t].captured, "timer", timers[t].attempt + 1)
  /\ UNCHANGED <<now, ticks, errorLog, clientVars, authVars, handlerVars, clicks>>

\* retry(): if (lastRetryFn) { setRetryCount(0); handleAsync(lastRetryFn);
\* onRetry?.() }.  Nothing calls setLastRetryFn.    (errorHandler.ts:481-487)
Retry ==
  /\ clicks < MaxClicks
  /\ clicks' = clicks + 1
  /\ IF hook.lastRetryFn # <<>>
       THEN /\ Len(runs) < MaxRuns
            /\ StartRun(hook.retryCount, "retry", 1)
       ELSE UNCHANGED <<hook, runs>>
  /\ UNCHANGED <<now, ticks, errorLog, clientVars, authVars, handlerVars, timers>>

\* clearError(): setError(null); setRetryCount(0)    (errorHandler.ts:419-422)
ClearError ==
  /\ hook.error # <<>>
  /\ hook' = [hook EXCEPT !.error = <<>>, !.retryCount = 0]
  /\ UNCHANGED <<now, ticks, errorLog, clientVars, authVars, handlerVars, runs, timers,
                 clicks>>

NextHook ==
  \/ ComponentCalls
  \/ \E i \in DOMAIN runs : FnSettled(i)
  \/ \E t \in DOMAIN timers : TimerFires(t)
  \/ Retry
  \/ ClearError

SpecHook == InitHookSpec /\ [][NextHook]_vars

(***************************************************************************)
(* contexts/AuthContext.tsx: AuthProvider                                  *)
(***************************************************************************)
FiveMinutesMs == 5 * 60 * 1000     \* AuthContext.tsx:127

ExpiresSoonInSeconds(s, ms) == TimeUntilExpiry(s, ms) < RefreshWindow

\* const expiresAt = session.expires_at ? session.expires_at * 1000 : 0;
\* expiresAt - now < fiveMinutes                    (AuthContext.tsx:125-129)
ExpiresSoon(s, ms) ==
  (IF s.expires_at # 0 THEN s.expires_at * 1000 ELSE 0) - ms < FiveMinutesMs

\* Sessions the AuthProvider is mounted with: none, one without expires_at,
\* an expired one, and ones on both sides of the five minutes at the first
\* tick of the timer.
AuthLifetimes == {-60, 299, 360, 361, 3600}
AuthSessions ==
  {NoSession, Sess(1, 0)}
    \cup {Sess(1, NowSeconds(StartMs) + l) : l \in AuthLifetimes}

\* The AuthProvider after its effect has run: getInitialSession() is
\* suspended at its getSession(), the listener is subscribed and the timer
\* is set.  Whether the provider reports INITIAL_SESSION to a new subscriber
\* depends on the version of the library.          (AuthContext.tsx:95-134)
InitAuthSpec ==
  /\ InitClient
  /\ session \in AuthSessions
  /\ input = NoInput
  /\ call = NoCall
  /\ InitHook
  /\ authContext = AuthContext(NoSession, TRUE)
  /\ subscription = TRUE
  /\ authEvents \in {<<>>, <<AuthEvent("INITIAL_SESSION", session)>>}
  /\ initialSession = [pc |-> "getSession", session |-> NoSession]
  /\ refreshInterval = [pc |-> "idle", checks |-> <<>>]

\* The provider reads its session for the getSession() of
\* getInitialSession; the promise resolves later, after whatever the
\* provider does before it answers.                 (AuthContext.tsx:98-100)
InitialSessionRead ==
  /\ initialSession.pc = "getSession"
  /\ initialSession' = [pc |-> "resolved", session |-> session]
  /\ UNCHANGED <<now, ticks, errorLog, clientVars, handlerVars, hookVars,
                 authContext, subscription, authEvents, refreshInterval>>

\* The promise resolves with the session read and getInitialSession
\* resumes: setSession, setUser, setLoading(false).
\*                                                 (AuthContext.tsx:101-103)
InitialSessionSet ==
  /\ initialSession.pc = "resolved"
  /\ authContext' = AuthContext(initialSession.session, FALSE)
  /\ initialSession' = [initialSession EXCEPT !.pc = "done"]
  /\ UNCHANGED <<now, ticks, errorLog, clientVars, handlerVars, hookVars,
                 subscription, authEvents, refreshInterval>>

\* The listener of onAuthStateChange runs for the oldest undelivered event.
\*                                                 (AuthContext.tsx:109-116)
AuthStateChange ==
  /\ subscription
  /\ authEvents # <<>>
  /\ authContext' = AuthContext(Head(authEvents).session, FALSE)
  /\ authEvents' = Tail(authEvents)
  /\ UNCHANGED <<now, ticks, errorLog, clientVars, handlerVars, hookVars,
                 subscription, initialSession, refreshInterval>>

\* A minute has passed: setInterval runs the callback, which calls
\* getSession().                                (AuthContext.tsx:119-122, 134)
IntervalFires ==
  /\ ticks < MaxTicks
  /\ refreshInterval.pc = "idle"
  /\ ticks' = ticks + 1
  /\ now' = now + TickMs
  /\ refreshInterval' = [refreshInterval EXCEPT !.pc = "getSession"]
  /\ UNCHANGED <<errorLog, clientVars, handlerVars, hookVars, authContext,
                 subscription, authEvents, initialSession>>

\* The provider answered the timer's getSession(): the callback decides
\* whether to call refreshSession().               (AuthContext.tsx:120-131)
IntervalSessionRead ==
  /\ refreshInterval.pc = "getSession"
  /\ LET refresh == session.present /\ ExpiresSoon(session, now)
     IN refreshInterval' =
          [pc |-> IF refresh THEN "refreshSession" ELSE "idle",
           checks |-> Append(refreshInterval.checks,
                        [session |-> session, at |-> now,
                         refresh |-> refresh])]
  /\ UNCHANGED <<now, ticks, errorLog, clientVars, handlerVars, hookVars,
                 authContext, subscription, authEvents, initialSession>>

\* The timer's refreshSession() settled; its answer is not looked at.
\*                                                    (AuthContext.tsx:131)
IntervalRefreshSettled ==
  /\ refreshInterval.pc = "refreshSession"
  /\ \E outcome \in RefreshOutcomesOf(session) : ProviderRefresh(outcome)
  /\ refreshInterval' = [refreshInterval EXCEPT !.pc = "idle"]
  /\ authEvents' =
       IF session' # session
         THEN Append(authEvents, AuthEvent("TOKEN_REFRESHED", session'))
         ELSE authEvents
  /\ UNCHANGED <<now, ticks, expiresIn, pc, config, error, passes,
                 refreshCalls, sent, recv, reactTok, branch, effects, result,
                 errorLog, localStorage, sessionStorage, href>>
  /\ UNCHANGED <<handlerVars, hookVars, authContext, subscription,
                 initialSession>>

\* The mounted AuthProvider and one API call.
NextAuth ==
  \/ InitialSessionRead
  \/ InitialSessionSet
  \/ AuthStateChange
  \/ IntervalFires
  \/ IntervalSessionRead
  \/ IntervalRefreshSettled
  \/ Request(Main)
  \/ SessionRead(Main)
  \/ ProactiveSettled(Main)
  \/ Response(Main)
  \/ ReactiveSettled(Main)
  \/ SignOutSettled(Main)

SpecAuth == InitAuthSpec /\ [][NextAuth]_vars

\* The refresh timer and one API call, while getInitialSession and the
\* listener have not run yet: the timer reads the provider's session, not
\* the context's.
InitInterval ==
  /\ InitAuthSpec
  /\ authEvents = <<>>

NextInterval ==
  \/ IntervalFires
  \/ IntervalSessionRead
  \/ IntervalRefreshSettled
  \/ Request(Main)
  \/ SessionRead(Main)
  \/ ProactiveSettled(Main)
  \/ Response(Main)
  \/ ReactiveSettled(Main)
  \/ SignOutSettled(Main)

SpecInterval == InitInterval /\ [][NextInterval]_vars

(***************************************************************************)
(* Properties                                                              *)
(***************************************************************************)
Settled(c) == pc[c] \in {"resolved", "rejected"}

\* How many of the refreshSession() calls of c are of the given kind.
CountOf(c, kind) ==
  Cardinality({i \in DOMAIN refreshCalls[c] : refreshCalls[c][i] = kind})

\* The error-log records that call c caused.
LogOf(c) == {i \in DOMAIN errorLog : errorLog[i].context.action[3] = c}

\* The call ended on the forced-logout path (api.ts:82-116).
ForcedLogout(c) == pc[c] = "rejected" /\ branch[c] # "none"

\* signOut invoked, both storages cleared, redirect issued: the forced
\* logout as a whole, in program order.
LogoutDone(eff) ==
  /\ Len(eff) >= 4
  /\ \A i \in 1..(Len(eff) - 3) : eff[i] = "signOut"
  /\ SubSeq(eff, Len(eff) - 2, Len(eff)) =
       <<"localStorage.clear", "sessionStorage.clear", "redirect">>

\* C1 (as stated): a single call triggers at most one token refresh in
\* total, proactive and reactive refreshes counted together.
C1_AtMostOneRefreshInTotal ==
  \A c \in Calls : Len(refreshCalls[c]) <= 1

\* C1 (amended): a single call triggers at most one reactive refresh; the
\* request interceptor adds at most one proactive refresh for each of the (at
\* most two) dispatches, so a call triggers at most three refreshes in all.
C1_AtMostOneReactiveRefresh ==
  \A c \in Calls :
    /\ CountOf(c, "reactive") <= 1
    /\ CountOf(c, "proactive") <= Len(passes[c])
    /\ Len(passes[c]) <= 2
    /\ Len(refreshCalls[c]) <= 3

C1_Witness ==
  /\ Settled(Main)
  /\ refreshCalls[Main] = <<"proactive", "reactive", "proactive">>

\* C2: a single call is dispatched at most twice, even when every dispatch
\* is answered 401 and every refresh succeeds; once the first 401 is handled
\* the request carries the _retry mark.
C2_AtMostTwoDispatches ==
  \A c \in Calls :
    /\ Len(sent[c]) <= 2
    /\ Len(recv[c]) <= 2
    /\ (Len(recv[c]) >= 1 /\ recv[c][1] = 401) => config[c]._retry

C2_Witness ==
  /\ Settled(Main)
  /\ recv[Main] = <<401, 401>>
  /\ reactTok[Main] # NoToken
  /\ Len(sent[Main]) = 2

\* C3: when the retried dispatch (after a first 401 and a successful
\* refresh) also returns 401, the call ends on the forced-logout path:
\* signOut invoked, storages cleared, redirect issued.
C3_SecondUnauthorizedForcesLogout ==
  \A c \in Calls :
    (Settled(c) /\ recv[c] = <<401, 401>>) =>
      /\ LogoutDone(effects[c])
      /\ href = "/"

\* C4: every failure surfaced to the caller is a StandardError; the failures
\* surfaced after a forced logout carry the unauthorized code.
C4_FailuresAreStandardErrors ==
  \A c \in Calls :
    pc[c] = "rejected" =>
      /\ result[c].kind = "StandardError"
      /\ ForcedLogout(c) => result[c].value.code = ErrorCode.API_UNAUTHORIZED

\* C5: when a dispatch returns 401 and the reactive refresh fails, the
\* client performs the forced logout and issues no retried dispatch.
C5_FailedRefreshLogsOutWithoutRetry ==
  \A c \in Calls :
    ForcedLogout(c) =>
      /\ Len(sent[c]) = 1
      /\ LogoutDone(effects[c])
      /\ localStorage = {} /\ sessionStorage = {} /\ href = "/"

\* C6: whenever a call ends on the forced-logout path, by the time its
\* rejection is delivered signOut has been invoked, localStorage and
\* sessionStorage have been cleared and the redirect has been issued, in
\* that order, on each of the three branches and also when signOut fails.
C6_LogoutCompleteBeforeRejection ==
  \A c \in Calls :
    (pc[c] = "rejected" /\ branch[c] \in {"refreshError", "noToken", "thrown"})
      => LogoutDone(effects[c])

\* C7: a call whose primary dispatch returns 401, whose reactive refresh
\* succeeds and whose retried dispatch returns 2xx resolves with the payload
\* of the retried response: no error surfaced or logged, no forced logout,
\* exactly two dispatches.
C7_TransparentRetry ==
  \A c \in Calls :
    recv[c] = <<401, 200>> =>
      /\ pc[c] = "resolved"
      /\ result[c].kind = "payload"
      /\ result[c].value = <<c, 2>>
      /\ Len(sent[c]) = 2
      /\ effects[c] = <<>> /\ branch[c] = "none"
      /\ LogOf(c) = {}

C7_Witness ==
  /\ recv[Main] = <<401, 200>>
  /\ reactTok[Main] # NoToken
  /\ pc[Main] = "resolved"

\* The retried dispatch of c has been sent after its reactive refresh
\* succeeded.
Retried(c) == reactTok[c] # NoToken /\ Len(sent[c]) >= 2 /\ Len(passes[c]) >= 2

\* C8 (as stated): the retried dispatch carries exactly the access token
\* returned by that call's reactive refresh, whatever happens to the shared
\* session between the refresh and the retried dispatch.
C8_RetryCarriesRefreshedToken ==
  \A c \in Calls : Retried(c) => sent[c][2] = reactTok[c]

\* C8 (amended): the retried dispatch carries the token the request
\* interceptor attaches when the retried request passes through it again:
\* the token of the session the provider then reports, or the token of the
\* proactive refresh when that session is about to expire and the refresh
\* succeeds.  It is the token of the call's own reactive refresh when the
\* provider then reports no token, or still reports that token and the
\* interceptor does not refresh successfully.
C8_RetryCarriesInterceptorToken ==
  \A c \in Calls :
    Retried(c) =>
      LET p == passes[c][2]
      IN /\ ~HasToken(p.session) => sent[c][2] = reactTok[c]
         /\ (HasToken(p.session) /\ p.refresh = "ok") =>
              sent[c][2] = p.refreshed /\ p.refreshed # reactTok[c]
         /\ (HasToken(p.session) /\ p.refresh # "ok") =>
              sent[c][2] = p.session.access_token
         /\ (p.session.access_token = reactTok[c] /\ p.refresh # "ok") =>
              sent[c][2] = reactTok[c]

\* The shared session was destroyed between the refresh of c1 and its
\* retried dispatch, which still carries the token of that refresh.
C8_Witness ==
  /\ Retried(Main)
  /\ ~HasToken(passes[Main][2].session)
  /\ sent[Main][2] = reactTok[Main]

\* Remaining lifetime, in whole seconds, of the session a run of the
\* interceptor read: expires_at minus the current second.
Remaining(p) == p.session.expires_at - (p.at \div 1000)

\* The refreshSession() calls of c up to and including its first run of the
\* request interceptor (TOKEN_CHECK of the primary dispatch).
TokenCheckRefreshes(c) ==
  IF Len(recv[c]) = 0 THEN refreshCalls[c] ELSE
    SubSeq(refreshCalls[c], 1,
           IF Len(refreshCalls[c]) >= 1 /\ refreshCalls[c][1] = "proactive"
             THEN 1 ELSE 0)

\* C9: in TOKEN_CHECK, for a session with an access token and remaining
\* lifetime t: 0 < t < 300 gives exactly one proactive refresh before the
\* dispatch; t >= 300 gives none and the current token is attached; t <= 0
\* (expired, or expires_at missing) gives none and the current token is
\* attached.
C9_ProactiveRefreshWindow ==
  \A c \in Calls :
    (Len(passes[c]) >= 1 /\ HasToken(passes[c][1].session)) =>
      LET p == passes[c][1]
          t == Remaining(p)
      IN /\ (0 < t /\ t < 300) =>
              /\ TokenCheckRefreshes(c) = <<"proactive">>
              /\ p.refresh # "none"
              /\ p.refresh = "pending" <=> Len(sent[c]) = 0
         /\ (t >= 300 \/ t <= 0) =>
              /\ TokenCheckRefreshes(c) = <<>>
              /\ p.refresh = "none"
              /\ Len(sent[c]) >= 1
              /\ sent[c][1] = p.session.access_token

C9_Witness ==
  /\ Len(passes[Main]) = 1
  /\ HasToken(passes[Main][1].session)
  /\ Remaining(passes[Main][1]) = 299
  /\ pc[Main] = "inFlight"
  /\ refreshCalls[Main] = <<"proactive">>

\* C10: when the proactive refresh fails (error, no token, or rejection) the
\* request is still dispatched with the old token; the failure causes no
\* rejection, no forced logout and no error-log record.  When it succeeds
\* the refreshed token is the one attached.
C10_ProactiveRefreshBestEffort ==
  \A c \in Calls :
    \A i \in DOMAIN passes[c] :
      LET p == passes[c][i]
      IN /\ p.refresh \in {"error", "noToken", "throw"} =>
              /\ Len(sent[c]) >= i
              /\ sent[c][i] = p.session.access_token
              /\ p.session.access_token # NoToken
              /\ (Len(recv[c]) = i - 1) =>
                   /\ pc[c] = "inFlight"
                   /\ result[c].kind = "none"
                   /\ effects[c] = <<>> /\ branch[c] = "none"
                   /\ LogOf(c) = {}
         /\ p.refresh = "ok" =>
              /\ Len(sent[c]) >= i
              /\ sent[c][i] = p.refreshed
              /\ p.refreshed # NoToken
              /\ p.refreshed # p.session.access_token

C10_Witness ==
  /\ Len(passes[Main]) = 1
  /\ passes[Main][1].refresh = "throw"
  /\ pc[Main] = "inFlight"
  /\ sent[Main] = <<passes[Main][1].session.access_token>>

\* C11 (as stated): when the provider reports no session, or a session
\* without an access token, the request is dispatched without an
\* Authorization header and without a refresh in TOKEN_CHECK; when the
\* backend answers 401 the client attempts exactly one refresh and, that
\* refresh reporting no session, forces logout: signOut invoked, storages
\* cleared, redirect issued, no retried dispatch.
C11_NoSessionDispatchThenLogout ==
  \A c \in Calls :
    (Len(passes[c]) >= 1 /\ ~HasToken(passes[c][1].session)) =>
      /\ passes[c][1].refresh = "none"
      /\ TokenCheckRefreshes(c) = <<>>
      /\ Len(sent[c]) >= 1 /\ sent[c][1] = NoToken
      /\ (Len(recv[c]) >= 1 /\ recv[c][1] = 401) =>
           /\ Len(refreshCalls[c]) >= 1 /\ refreshCalls[c][1] = "reactive"
           /\ CountOf(c, "reactive") = 1
      /\ (pc[c] = "rejected" /\ branch[c] \in {"noToken", "refreshError"}) =>
           /\ refreshCalls[c] = <<"reactive">>
           /\ Len(sent[c]) = 1
           /\ LogoutDone(effects[c])
           /\ href = "/"

\* The n-th dispatch of c was the one that failed with something other than
\* a 401 response.
FailedPlainly(c, n) ==
  /\ Len(recv[c]) >= n
  /\ recv[c][n] \notin {200, 401}

\* C12: a dispatch that fails with anything other than a 401 response
\* (another non-2xx status, a timeout, no response at all) goes straight to
\* FAILED: no refresh is requested for it, no dispatch follows it, signOut is
\* not called, the persisted state is not cleared; the failure is classified
\* (server error for a 5xx status, network error without a response), logged
\* and rejected to the caller.
C12_PlainFailureGoesStraightToFailed ==
  \A c \in Calls :
    \A n \in DOMAIN recv[c] :
      FailedPlainly(c, n) =>
        /\ Len(recv[c]) = n /\ Len(sent[c]) = n
        /\ pc[c] = "rejected"
        /\ CountOf(c, "reactive") = n - 1
        /\ Len(refreshCalls[c]) =
             CountOf(c, "reactive") + Cardinality({i \in 1..n :
               passes[c][i].refresh # "none"})
        /\ effects[c] = <<>> /\ branch[c] = "none"
        /\ localStorage = PersistedKeys /\ sessionStorage = {} /\ href = "/app"
        /\ result[c].kind = "StandardError"
        /\ result[c].value.code =
             IF recv[c][n] = NoStatus THEN ErrorCode.NETWORK_ERROR
                                      ELSE ErrorCode.API_SERVER_ERROR
        /\ result[c].value.severity = ErrorSeverity.HIGH
        /\ LogOf(c) # {}
        /\ \A i \in LogOf(c) : errorLog[i] = result[c].value

C12_Witness ==
  /\ recv[Main] = <<NoStatus>>
  /\ pc[Main] = "rejected"
  /\ HasToken(session)
  /\ result[Main].kind = "StandardError"

\* The record the last call of the error handler returned.
Returned == call.ret[1]

\* The (code, severity) the design assigns to a response status.
ExpectedClass(status) ==
  CASE status = 400 -> <<ErrorCode.VALIDATION_ERROR, ErrorSeverity.MEDIUM>>
    [] status = 401 -> <<ErrorCode.API_UNAUTHORIZED, ErrorSeverity.HIGH>>
    [] status = 403 -> <<ErrorCode.API_FORBIDDEN, ErrorSeverity.HIGH>>
    [] status = 404 -> <<ErrorCode.API_NOT_FOUND, ErrorSeverity.MEDIUM>>
    [] status = 408 -> <<ErrorCode.API_TIMEOUT, ErrorSeverity.MEDIUM>>
    [] status = 500 -> <<ErrorCode.API_SERVER_ERROR, ErrorSeverity.HIGH>>
    [] status = 502 -> <<ErrorCode.API_SERVER_ERROR, ErrorSeverity.HIGH>>
    [] status = 503 -> <<ErrorCode.API_SERVER_ERROR, ErrorSeverity.HIGH>>
    [] status = 504 -> <<ErrorCode.API_SERVER_ERROR, ErrorSeverity.HIGH>>
    [] OTHER -> <<ErrorCode.API_SERVER_ERROR, ErrorSeverity.MEDIUM>>

C14_ClassificationNeverThrows ==
  call.op = "handleApiError" =>
    /\ ~call.threw
    /\ Len(call.ret) = 1
    /\ (~input.raw.response /\ ~input.raw.request) =>
         /\ Returned.code = ErrorCode.UNKNOWN_ERROR
         /\ Returned.severity = ErrorSeverity.MEDIUM

\* C15: createError never throws, for every code, message and options and
\* whatever originalError is; the record it returns has the severity
\* supplied or else medium, the context supplied or else a freshly generated
\* one (request id and timestamp of the moment of the call), and is the last
\* element of the log afterwards.
C15_CreateNeverThrows ==
  call.op = "createError" =>
    /\ ~call.threw
    /\ Len(call.ret) = 1
    /\ Returned.code = input.code
    /\ Returned.message = input.message
    /\ Len(input.options.severity) = 0 =>
         Returned.severity = ErrorSeverity.MEDIUM
    /\ Len(input.options.severity) = 1 =>
         Returned.severity = input.options.severity[1]
    /\ Len(input.options.context) = 0 =>
         /\ Returned.context.timestamp = call.at
         /\ \E rnd \in 0..MaxRandom :
              Returned.context.requestId = <<"req", call.at, rnd>>
    /\ Len(input.options.context) = 1 =>
         Returned.context = input.options.context[1]
    /\ errorLog = Append(call.before, Returned)
    /\ Last(errorLog) = Returned

C15_Witness ==
  /\ call.op = "createError"
  /\ input.options.originalError = <<"null">>
  /\ Len(call.before) = 1
  /\ Len(errorLog) = 2
  /\ Last(errorLog).severity = ErrorSeverity.MEDIUM

\* Every code of the enum has a non-empty entry in the userMessage table,
\* and every record the error handler produced has a non-empty userMessage;
\* an empty userMessage option gives the message of the table.
UserMessagesNonEmpty ==
  /\ \A code \in ErrorCodes :
       userMessages[code] # "" /\ getUserFriendlyMessage(code) = userMessages[code]
  /\ \A i \in DOMAIN errorLog : errorLog[i].userMessage # ""
  /\ \A i \in DOMAIN call.ret : call.ret[i].userMessage # ""
  /\ (call.op = "createError" /\ input.options.userMessage = <<"">>) =>
       /\ Returned.userMessage # ""
       /\ input.code \in ErrorCodes => Returned.userMessage = userMessages[input.code]

\* C16 (as stated): the taxonomy has 27 codes, the userMessage lookup
\* returns a non-empty string for each of them, and every record created has
\* a non-empty userMessage, also with an empty userMessage option.
C16_TaxonomyOf27HasMessages ==
  /\ Cardinality(ErrorCodes) = 27
  /\ UserMessagesNonEmpty

\* C16 (amended): the taxonomy has 19 codes, the userMessage lookup returns
\* a non-empty string for each of them, and every record created has a
\* non-empty userMessage, also with an empty userMessage option.
C16_TaxonomyOf19HasMessages ==
  /\ Cardinality(ErrorCodes) = 19
  /\ Cardinality(DOMAIN userMessages) = 19
  /\ UserMessagesNonEmpty

C16_Witness ==
  /\ call.op = "createError"
  /\ input.options.userMessage = <<"">>
  /\ input.code = ErrorCode.ML_ANALYSIS_ERROR
  /\ Len(errorLog) = 1
  /\ errorLog[1].userMessage =
       "AI analysis is temporarily unavailable. Your entry has been saved."

IsPrefix(a, b) == Len(a) <= Len(b) /\ SubSeq(b, 1, Len(a)) = a

\* C17 (as stated): the error log is append-only: whatever operation of the
\* error handler's public interface is performed, the log after it has the
\* log before it as a prefix.
C17_LogAppendOnly == [][IsPrefix(errorLog, errorLog')]_vars

\* C17 (amended): every operation of the public interface leaves the log as
\* it is or appends one record at its end, except clearErrorLog(), which
\* empties it; no operation removes part of the log or reorders it.
C17_LogAppendOnlyUntilCleared ==
  [][\/ errorLog' = errorLog
     \/ /\ Len(errorLog') = Len(errorLog) + 1
        /\ IsPrefix(errorLog, errorLog')
     \/ /\ call'.op = "clearErrorLog"
        /\ call'.before = errorLog
        /\ errorLog' = <<>>]_vars

C17_Witness ==
  /\ call.op = "clearErrorLog"
  /\ Len(call.before) >= 2
  /\ call.before[1] # call.before[2]
  /\ errorLog = <<>>

\* The last k elements of a sequence, in order.
LastN(seq, k) == SubSeq(seq, Len(seq) - k + 1, Len(seq))

\* C18: getRecentErrors(limit) returns, for every limit >= 0 and every log
\* of length n, the last min(limit, n) records of the log in insertion
\* order, never more than limit records, and leaves the log unchanged.
C18_RecentErrorsAreTheLastLimit ==
  call.op = "getRecentErrors" =>
    /\ call.ret = LastN(call.before, Min(call.limit, Len(call.before)))
    /\ Len(call.ret) <= call.limit
    /\ errorLog = call.before

\* A step that creates a record with a freshly generated context.
CreatesWithDefaultContext ==
  /\ call'.op \in {"createError", "handleApiError"}
  /\ Len(call'.ret) = 1
  /\ errorLog' = Append(errorLog, call'.ret[1])
  /\ call'.before = errorLog
  /\ input.op = "createError" => Len(input.options.context) = 0

\* C19: any two distinct records created with a freshly generated context
\* have different context.requestId values, also when they are created
\* within the same millisecond: a newly created record never carries the
\* request id of a record created before it.
C19_RequestIdsUnique ==
  [][CreatesWithDefaultContext =>
       \A i \in DOMAIN errorLog :
         errorLog[i].context.requestId # call'.ret[1].context.requestId]_vars

\* C20: in the hook, once a run of handleAsync(fn) has failed and set error,
\* a call of retry() invokes fn again, as a new run of handleAsync; retry()
\* is never a no-op while a failed operation exists.
C20_RetryInvokesFailedOperation ==
  [][(/\ clicks' = clicks + 1
      /\ hook.error # <<>>
      /\ \E i \in DOMAIN runs : runs[i].st = "failed"
      /\ Len(runs) < MaxRuns)
       => /\ Len(runs') = Len(runs) + 1
          /\ Last(runs').st = "pending"]_vars

\* A dispatch of c is in flight: sent and not yet answered.
InFlight(c) == Len(sent[c]) > Len(recv[c])

\* A refreshSession() call of c has not settled yet.
RefreshPending(c) ==
  \/ pc[c] \in {"proactiveRefresh", "reactiveRefresh"}
  \/ \E i \in DOMAIN passes[c] : passes[c][i].refresh = "pending"

\* C21: within one call the steps are strictly ordered: every dispatch is
\* sent after the session read of its pass through TOKEN_CHECK and after the
\* proactive refresh of that pass, if any, has settled; the retried dispatch
\* is sent after the reactive refresh has settled (successfully); no
\* dispatch of a call is in flight while a refresh of that call is pending.
C21_StepsStrictlyOrdered ==
  \A c \in Calls :
    /\ ~(InFlight(c) /\ RefreshPending(c))
    /\ InFlight(c) <=> pc[c] = "inFlight"
    /\ Len(sent[c]) <= Len(passes[c])
    /\ \A i \in DOMAIN sent[c] : passes[c][i].refresh # "pending"
    /\ Len(passes[c]) >= 2 =>
         /\ reactTok[c] # NoToken
         /\ CountOf(c, "reactive") = 1
         /\ pc[c] # "reactiveRefresh"
         /\ Len(recv[c]) >= 1 /\ recv[c][1] = 401
    /\ pc[c] = "reactiveRefresh" => Len(sent[c]) = 1 /\ Len(recv[c]) = 1

C21_Witness ==
  /\ pc[Main] = "inFlight"
  /\ Len(sent[Main]) = 2
  /\ refreshCalls[Main] = <<"proactive", "reactive", "proactive">>
  /\ passes[Main][2].refresh = "ok"

\* The primary dispatch of c was answered 401.
FirstUnauthorized(c) == Len(recv[c]) >= 1 /\ recv[c][1] = 401

\* C22: with two calls in flight at once each call's retry state is its
\* own: a call carries the _retry mark exactly when its own primary dispatch
\* was answered 401, each such call issues its own reactive refresh (one,
\* whatever the other call did), a call without a 401 issues none, and under
\* every interleaving each call is dispatched at most twice.
C22_RetryStatePrivate ==
  \A c \in Calls :
    /\ config[c]._retry <=> FirstUnauthorized(c)
    /\ FirstUnauthorized(c) => CountOf(c, "reactive") = 1
    /\ ~FirstUnauthorized(c) => CountOf(c, "reactive") = 0
    /\ Len(sent[c]) <= 2
    /\ Len(sent[c]) = 2 => reactTok[c] # NoToken

\* Both calls were answered 401 and both reactive refreshes are pending at
\* the same time.
C22_Witness ==
  /\ \A c \in Calls : pc[c] = "reactiveRefresh" /\ FirstUnauthorized(c)
  /\ \A c \in Calls : refreshCalls[c] = <<"reactive">>

\* C23: every issued call eventually reaches SUCCESS or FAILED (its promise
\* resolves or rejects), provided the provider and the network answer; a
\* backend that answers 401 forever and a refresh that always succeeds do
\* not keep it going.
C23_EveryCallTerminates == (pc[Main] = "getSession") ~> Settled(Main)

\* The backend answered 401 twice, the refresh between them succeeded, and
\* the call has ended.
C23_Witness ==
  /\ pc[Main] = "rejected"
  /\ recv[Main] = <<401, 401>>
  /\ CountOf(Main, "reactive") = 1
  /\ result[Main].kind = "StandardError"
  /\ result[Main].value.code = ErrorCode.API_UNAUTHORIZED

\* C24 (as stated): the client never creates or destroys the provider's
\* session: on every path of a call the only provider operations it invokes
\* are getSession and refreshSession, so signOut is never among its effects
\* and a session that is present stays present.
C24_OnlyReadsAndRefreshes ==
  \A c \in Calls :
    /\ \A i \in DOMAIN effects[c] : effects[c][i] # "signOut"
    /\ (Len(passes[c]) >= 1 /\ passes[c][1].session.present) => session.present

\* C24 (amended): the client never creates a session, and it destroys the
\* session on the forced-logout path only: signOut is invoked, and the
\* session removed, only by a call whose primary dispatch was answered 401
\* and whose reactive refresh failed; on every other path the only provider
\* operations are getSession and refreshSession, and the session changes
\* only by a refresh replacing a present session with a new one.
C24_DestroysOnlyOnForcedLogout ==
  [][/\ session' # session =>
          \/ /\ session.present /\ session'.present
             /\ session'.access_token = nextTok
             /\ \E c \in Calls :
                  /\ pc[c] \in {"proactiveRefresh", "reactiveRefresh"}
                  /\ pc'[c] \in {"inFlight", "getSession"}
          \/ /\ session' = NoSession
             /\ \E c \in Calls :
                  /\ pc[c] \in {"signOutTry", "signOutCatch"}
                  /\ pc'[c] = "rejected"
                  /\ branch[c] # "none"
     /\ \A c \in Calls :
          effects'[c] # effects[c] =>
            /\ branch'[c] # "none"
            /\ FirstUnauthorized(c)
            /\ CountOf(c, "reactive") = 1
            /\ Len(sent[c]) = 1]_vars

\* A session with a token was present, the call was answered 401, its
\* refresh failed, and the forced logout removed the session.
C24_Witness ==
  /\ pc[Main] = "rejected"
  /\ HasToken(passes[Main][1].session)
  /\ LogoutDone(effects[Main])
  /\ session = NoSession

\* The value is a record the error handler built (it carries a userMessage),
\* not a raw transport error.
IsErrorRecord(v) == "userMessage" \in DOMAIN v /\ "severity" \in DOMAIN v

\* Run i of handleAsync fails in this step.
FailsNow(i) == runs[i].st = "pending" /\ runs'[i].st = "failed"

\* C25: when handleAsync receives a failure the API client has already
\* classified (the record its response interceptor threw), the hook's error
\* is that same record, code, severity and userMessage unchanged, and no
\* further record is created for it; a raw transport error is never stored
\* as the hook's error without being classified.
C25_HookKeepsClassification ==
  [][\A i \in DOMAIN runs :
       FailsNow(i) =>
         LET err == runs'[i].thrown[1]
             got == hook'.error[1]
         IN /\ IsErrorRecord(got)
            /\ IsErrorRecord(err) =>
                 /\ got.code = err.code
                 /\ got.severity = err.severity
                 /\ got.userMessage = err.userMessage
                 /\ errorLog' = errorLog]_vars

\* The component has called handleAsync once: every other run is an
\* automatic retry of that call.
OneOperation ==
  Cardinality({i \in DOMAIN runs : runs[i].origin = "component"}) = 1

\* C26: with autoRetry enabled and maxRetries = N, a function that fails on
\* every invocation is invoked at most N + 1 times (the first attempt and at
\* most N automatic retries); the delay before the k-th retry is
\* 1000 * 2^(k-1) ms; after the N-th retry no further one is scheduled.
C26_AutoRetryBounded ==
  (hook.autoRetry /\ OneOperation) =>
    /\ \A i \in DOMAIN runs : runs[i].attempt <= hook.maxRetries + 1
    /\ \A t \in DOMAIN timers :
         /\ timers[t].attempt <= hook.maxRetries
         /\ timers[t].delay = 1000 * (2 ^ (timers[t].attempt - 1))

\* C27: every call the response interceptor has classified and rejected has
\* exactly one record in the error log, and no record is in the log twice.
C27_OneLogRecordPerFailure ==
  /\ \A c \in Calls :
       result[c].kind = "StandardError" => Cardinality(LogOf(c)) = 1
  /\ \A i, j \in DOMAIN errorLog : errorLog[i] = errorLog[j] => i = j

\* C28: a forced logout leaves the data other components keep in
\* localStorage (the theme choice, the eunoia-* preferences) as it was.
C28_ForcedLogoutKeepsPreferences ==
  \A c \in Calls :
    ForcedLogout(c) => PersistedKeys \subseteq localStorage

\* The timer's callback took a step.
IntervalStep == refreshInterval' # refreshInterval

\* What the timer's callback found at its k-th look at the session.
CheckOf(k) == refreshInterval.checks[k]

\* C29: at each tick of the refresh timer the AuthProvider calls
\* refreshSession exactly when the provider has a session whose remaining
\* lifetime is below five minutes, an expired session and one without
\* expires_at included, and never without a session; a step of the timer
\* does not sign out, clear the storages or redirect; and whoever refreshes
\* last, the timer or a call, leaves its session as the provider's.
C29_TimerRefreshesExpiringSession ==
  [][/\ \A k \in DOMAIN refreshInterval'.checks :
          LET check == refreshInterval'.checks[k]
          IN  check.refresh <=>
                /\ check.session.present
                /\ \/ check.session.expires_at = 0
                   \/ (check.session.expires_at * 1000) - check.at < 300000
     /\ (refreshInterval.pc = "getSession" /\ IntervalStep) =>
          /\ Len(refreshInterval'.checks) = Len(refreshInterval.checks) + 1
          /\ LET check == refreshInterval'.checks[Len(refreshInterval'.checks)]
             IN  /\ check.session = session /\ check.at = now
                 /\ refreshInterval'.pc =
                      IF check.refresh THEN "refreshSession" ELSE "idle"
     /\ (refreshInterval'.pc = "refreshSession" /\ IntervalStep) =>
          refreshInterval.pc = "getSession"
     /\ IntervalStep =>
          /\ localStorage' = localStorage /\ sessionStorage' = sessionStorage
          /\ href' = href /\ effects' = effects /\ pc' = pc
          /\ session' # session =>
               (refreshInterval.pc = "refreshSession" /\ session.present)
     /\ (session' # session /\ session'.present) =>
          /\ session'.access_token = nextTok
          /\ nextTok' = nextTok + 1]_vars

\* The timer has asked for a refresh of a session without expires_at while
\* the proactive refresh of a call is in flight.
C29_Witness ==
  /\ refreshInterval.pc = "refreshSession"
  /\ CheckOf(Len(refreshInterval.checks)).refresh
  /\ CheckOf(Len(refreshInterval.checks)).session.expires_at = 0
  /\ pc[Main] = "proactiveRefresh"

\* C30: once the initial getSession and every reported auth state change
\* have been processed, the context holds the provider's latest session,
\* that session's user (or null), and loading is false.
C30_ContextFollowsProvider ==
  (initialSession.pc = "done" /\ authEvents = <<>>) =>
    authContext = [session |-> session, user |-> UserOf(session),
                   loading |-> FALSE]
====
